---- MODULE Spec2Model ----
(***************************************************************************)
(* State-machine model of src/src/fulltext_to_markdown.py: main() parses   *)
(* the command line, validate_args() checks the library type and the       *)
(* output directory, get_interactive_input() prompts for what is missing,  *)
(* the clients are initialised and process_papers() synchronises the       *)
(* collection and exports one markdown file per paper with full text.      *)
(*                                                                         *)
(* Python strings are sequences of one-character strings, so that          *)
(* str.strip(), the f-string of the document and sanitize_filename() are   *)
(* computed; a word whose letters play no role is one element.  Values     *)
(* that are not strings are marker sequences.                              *)
(***************************************************************************)
EXTENDS Integers, Sequences, FiniteSets, TLC

\* Largest number of rows get_library_df() returns in the model.
MaxPapers == 2

(***************************************************************************)
(* Values                                                                  *)
(***************************************************************************)
\* Python's None.
None == <<"<None>">>
\* A float NaN, the value pandas gives a cell without text.
NaN == <<"<NaN>">>
\* The row has no 'fulltext' key at all.
Missing == <<"<missing>">>
\* No file at a path.
NoFile == <<"<no file>">>

RECURSIVE LStrip(_)
LStrip(s) == IF s = <<>> THEN s
             ELSE IF Head(s) = " " THEN LStrip(Tail(s)) ELSE s

RECURSIVE RStrip(_)
RStrip(s) == IF s = <<>> THEN s
             ELSE IF s[Len(s)] = " " THEN RStrip(SubSeq(s, 1, Len(s) - 1)) ELSE s

\* str.strip()
Strip(s) == RStrip(LStrip(s))

\* Python truth value of an optional string: None and "" are false.
Truthy(v) == v # None /\ v # <<>>

\* isinstance(v, str)
IsStr(v) == v \notin {None, NaN, Missing}

(***************************************************************************)
(* The environment: file system paths, command lines, console responses,   *)
(* rows of the synchronised library.                                       *)
(***************************************************************************)
\* An existing directory (it holds a file a.md from an earlier run), a path
\* that does not exist, an existing regular file.
VaultDir == <<"v">>
NewDir == <<"n">>
PlainFile == <<"f">>
Paths == {VaultDir, NewDir, PlainFile}

\* Values a credential flag or environment variable can carry.
CredValues == {<<>>, <<"k">>}
\* What the user can type at a credential prompt.
CredResponses == {<<>>, <<" ">>, <<"k">>}
\* Values --zotero-library-type / ZOTERO_LIBRARY_TYPE can carry.
LibTypeValues == {<<"user">>, <<"group">>, <<"admin">>}
\* What the user can type at the directory prompt.
DirResponses == {<<>>, <<" ">>, VaultDir, NewDir, <<" ">> \o PlainFile}

Titles == {<<"a", "/">>, <<"b">>}
FullTexts == {Missing, NaN, <<" ">>, <<" ", "t">>, <<"u">>}
Papers == [title : Titles, fulltext : FullTexts]

RECURSIVE SeqsUpTo(_, _)
SeqsUpTo(S, n) == IF n = 0 THEN {<<>>}
                  ELSE LET shorter == SeqsUpTo(S, n - 1)
                       IN shorter \cup {Append(q, x) : q \in {r \in shorter : Len(r) = n - 1}, x \in S}

\* The tables get_library_df() can return.
LibraryDfs == SeqsUpTo(Papers, MaxPapers)

(***************************************************************************)
(* Pure parts of the program                                               *)
(***************************************************************************)
\* argparse: the flag wins, else the default, which is the environment
\* variable, else the fallback.
Resolve(flag, env, fallback) ==
    IF flag # None THEN flag ELSE IF env # None THEN env ELSE fallback

\* ["user", "group"], the choices of line 122 and the list of line 16.
LibraryTypes == {<<"user">>, <<"group">>}

\* pathvalidate.sanitize_filename: characters illegal in file names are
\* removed, surrounding blanks are stripped.
RECURSIVE RemoveIllegal(_)
RemoveIllegal(s) == IF s = <<>> THEN s
                    ELSE IF Head(s) = "/" THEN RemoveIllegal(Tail(s))
                    ELSE <<Head(s)>> \o RemoveIllegal(Tail(s))

sanitize_filename(title) == Strip(RemoveIllegal(title))

\* f"{paper_title_sanitized}.md"
FileName(paper) == sanitize_filename(paper.title) \o <<".", "m", "d">>
FileNames == {FileName(p) : p \in Papers}

\* Variant of HasFulltext that leaves out the strip() test.
HasFulltext_no_strip(paper) ==
    /\ paper.fulltext # Missing
    /\ IsStr(paper.fulltext)

\* The test of line 75: the row has a textual, non-blank full text.
HasFulltext(paper) ==
    /\ paper.fulltext # Missing
    /\ IsStr(paper.fulltext)
    /\ Strip(paper.fulltext) # <<>>

\* Variant of markdown_text that writes the stripped full text.
markdown_text_stripped(paper) ==
    <<"#", " ">> \o paper.title \o <<"\n", "\n">> \o Strip(paper.fulltext)

\* f"# {paper['title']}\n\n{fulltext}"
markdown_text(paper) == <<"#", " ">> \o paper.title \o <<"\n", "\n">> \o paper.fulltext

(***************************************************************************)
(* State                                                                   *)
(***************************************************************************)
VARIABLES
    pc,                 \* where main() is
    args,               \* the argparse namespace
    dirs,               \* file system: kind of each path
    files,              \* file system: content of each file under a path
    fs_ops,             \* history: file system modifications made by this process
    prompted,           \* history: the arguments read from the console
    clients_initialised,\* ZoteroClient and OpenAlexClient were initialised
    sync_calls,         \* number of calls of sync_zotero_collection
    paper_library_df,   \* the rows process_papers iterates
    obsidian_dir,       \* the obsidian_directory parameter of process_papers
    paper_index,        \* number of rows iterrows() has yielded
    outcome,            \* history: what happened to each row iterated so far
    processed_count,
    logged_total,       \* the count logged at line 97, -1 before
    exit_status,        \* the exit status, -1 while running
    exit_cause,         \* history: why the process ended
    interrupted_at      \* history: where a KeyboardInterrupt hit, "" if none

vars == <<pc, args, dirs, files, fs_ops, prompted, clients_initialised, sync_calls,
          paper_library_df, obsidian_dir, outcome, processed_count, logged_total,
          paper_index, exit_status, exit_cause, interrupted_at>>

config_vars == <<args, prompted>>
fs_vars == <<dirs, files, fs_ops>>
lib_vars == <<clients_initialised, sync_calls, paper_library_df, obsidian_dir>>
export_vars == <<paper_index, outcome, processed_count, logged_total>>

Init ==
    /\ pc = "parse_args"
    /\ args = [zotero_api_key |-> None, zotero_library_id |-> None,
               zotero_collection_key |-> None, zotero_library_type |-> None,
               obsidian_directory |-> None, dry_run |-> FALSE]
    /\ dirs = [p \in Paths |-> IF p = VaultDir THEN "dir"
                               ELSE IF p = PlainFile THEN "file" ELSE "absent"]
    /\ files = [f \in Paths \X FileNames |->
                   IF f = <<VaultDir, <<"a", ".", "m", "d">> >> THEN <<"o">> ELSE NoFile]
    /\ fs_ops = <<>>
    /\ prompted = {}
    /\ clients_initialised = FALSE
    /\ sync_calls = 0
    /\ paper_library_df = <<>>
    /\ obsidian_dir = None
    /\ paper_index = 0
    /\ outcome = <<>>
    /\ processed_count = 0
    /\ logged_total = -1
    /\ exit_status = -1
    /\ exit_cause = "running"
    /\ interrupted_at = ""

\* sys.exit(status), or leaving main().
Exit(status, cause) ==
    /\ pc' = "exited"
    /\ exit_status' = status
    /\ exit_cause' = cause

Goto(label) ==
    /\ pc' = label
    /\ UNCHANGED <<exit_status, exit_cause>>

(***************************************************************************)
(* main(), lines 106-132: the command line and the environment              *)
(***************************************************************************)
OptCred == {None} \cup CredValues
OptLibType == {None} \cup LibTypeValues
OptDir == {None, <<>>} \cup Paths

\* argparse applies choices to a value given by flag, not to a default.
choices_reject(flag) == flag # None /\ flag \notin LibraryTypes

parse_args ==
    /\ pc = "parse_args"
    /\ \E api_key \in {Resolve(f, e, None) : f \in OptCred, e \in OptCred},
          library_id \in {Resolve(f, e, None) : f \in OptCred, e \in OptCred},
          collection_key \in {Resolve(f, e, None) : f \in OptCred, e \in OptCred},
          type_flag \in OptLibType, type_env \in OptLibType,
          directory \in {Resolve(f, e, None) : f \in OptDir \ {<<>>}, e \in OptDir},
          dry_run \in BOOLEAN :
          IF choices_reject(type_flag)
          THEN \* parser.error(): usage message, SystemExit(2)
               /\ Exit(2, "argparse_invalid_choice")
               /\ UNCHANGED args
          ELSE /\ args' = [zotero_api_key |-> api_key,
                           zotero_library_id |-> library_id,
                           zotero_collection_key |-> collection_key,
                           zotero_library_type |-> Resolve(type_flag, type_env, <<"user">>),
                           obsidian_directory |-> directory,
                           dry_run |-> dry_run]
               /\ Goto("validate_args")
    /\ UNCHANGED <<prompted, fs_vars, lib_vars, export_vars, interrupted_at>>

(***************************************************************************)
(* validate_args, lines 13-32                                              *)
(***************************************************************************)
\* Variant of invalid_library_type that accepts every value.
invalid_library_type_never(t) == FALSE

\* args.zotero_library_type not in ["user", "group"]
invalid_library_type(t) == t \notin LibraryTypes

validate_args ==
    /\ pc = "validate_args"
    /\ IF invalid_library_type(args.zotero_library_type)
       THEN Exit(1, "invalid_library_type") /\ UNCHANGED fs_vars
       ELSE IF ~Truthy(args.obsidian_directory)
       THEN Goto("ask_api_key") /\ UNCHANGED fs_vars
       ELSE LET d == args.obsidian_directory
            IN IF dirs[d] = "absent"
               THEN \/ \* mkdir(parents=True, exist_ok=True) succeeds
                       /\ dirs' = [dirs EXCEPT ![d] = "dir"]
                       /\ fs_ops' = Append(fs_ops, [op |-> "mkdir", dir |-> d, name |-> <<>>, row |-> 0])
                       /\ UNCHANGED files
                       /\ Goto("ask_api_key")
                    \/ \* mkdir raises OSError
                       /\ Exit(1, "cannot_create_directory")
                       /\ UNCHANGED fs_vars
               ELSE IF dirs[d] # "dir"
               THEN Exit(1, "not_a_directory") /\ UNCHANGED fs_vars
               ELSE Goto("ask_api_key") /\ UNCHANGED fs_vars
    /\ UNCHANGED <<config_vars, lib_vars, export_vars, interrupted_at>>

(***************************************************************************)
(* get_interactive_input, lines 35-57                                      *)
(***************************************************************************)
\* Variant of is_blank that accepts every response.
is_blank_never(response) == FALSE

\* The test that follows each credential prompt: nothing is left of the
\* response once it is stripped.
is_blank(response) == Strip(response) = <<>>

\* lines 37-41: getpass(); the key is kept as typed
ask_api_key ==
    /\ pc = "ask_api_key"
    /\ IF ~Truthy(args.zotero_api_key)
       THEN \E response \in CredResponses :
               /\ args' = [args EXCEPT !.zotero_api_key = response]
               /\ prompted' = prompted \cup {"zotero_api_key"}
               /\ IF is_blank(response)
                  THEN Exit(1, "missing_credential")
                  ELSE Goto("ask_library_id")
       ELSE Goto("ask_library_id") /\ UNCHANGED config_vars
    /\ UNCHANGED <<fs_vars, lib_vars, export_vars, interrupted_at>>

\* lines 43-47: input().strip()
ask_library_id ==
    /\ pc = "ask_library_id"
    /\ IF ~Truthy(args.zotero_library_id)
       THEN \E response \in CredResponses :
               /\ args' = [args EXCEPT !.zotero_library_id = Strip(response)]
               /\ prompted' = prompted \cup {"zotero_library_id"}
               /\ IF is_blank(response)
                  THEN Exit(1, "missing_credential")
                  ELSE Goto("ask_collection_key")
       ELSE Goto("ask_collection_key") /\ UNCHANGED config_vars
    /\ UNCHANGED <<fs_vars, lib_vars, export_vars, interrupted_at>>

\* lines 49-53: input().strip()
ask_collection_key ==
    /\ pc = "ask_collection_key"
    /\ IF ~Truthy(args.zotero_collection_key)
       THEN \E response \in CredResponses :
               /\ args' = [args EXCEPT !.zotero_collection_key = Strip(response)]
               /\ prompted' = prompted \cup {"zotero_collection_key"}
               /\ IF is_blank(response)
                  THEN Exit(1, "missing_credential")
                  ELSE Goto("ask_obsidian_directory")
       ELSE Goto("ask_obsidian_directory") /\ UNCHANGED config_vars
    /\ UNCHANGED <<fs_vars, lib_vars, export_vars, interrupted_at>>

\* lines 55-57: the optional directory; the response is not validated
ask_obsidian_directory ==
    /\ pc = "ask_obsidian_directory"
    /\ IF ~Truthy(args.obsidian_directory)
       THEN \E response \in DirResponses :
               /\ args' = [args EXCEPT !.obsidian_directory =
                              IF Strip(response) # <<>> THEN Strip(response) ELSE None]
               /\ prompted' = prompted \cup {"obsidian_directory"}
       ELSE UNCHANGED config_vars
    /\ Goto("init_clients")
    /\ UNCHANGED <<fs_vars, lib_vars, export_vars, interrupted_at>>

(***************************************************************************)
(* main(), lines 144-174                                                   *)
(***************************************************************************)
\* The statements inside the try of line 144.
TryBlock == {"init_clients", "sync", "get_library_df", "export"}

\* lines 146-163; clients_initialised records that the initialisation began
init_clients ==
    /\ pc = "init_clients"
    /\ clients_initialised' = TRUE
    /\ \/ /\ obsidian_dir' = IF args.dry_run THEN None ELSE args.obsidian_directory
          /\ Goto("sync")
       \/ \* a client raises: except Exception of line 169
          /\ Exit(1, "unexpected_error")
          /\ UNCHANGED obsidian_dir
    /\ UNCHANGED <<config_vars, fs_vars, sync_calls, paper_library_df, export_vars,
                   interrupted_at>>

\* Exit statuses of an interpreter that ends on an unhandled
\* KeyboardInterrupt: 1, or the death by SIGINT a shell shows as 130.
UnhandledInterruptStatus == {1, 130}

\* A KeyboardInterrupt reaches main(): lines 166-168 handle it inside the
\* try only; process_papers' except Exception does not catch it.
interrupt ==
    /\ pc # "exited"
    /\ interrupted_at' = pc
    /\ IF pc \in TryBlock
       THEN Exit(0, "cancelled")
       ELSE \E status \in UnhandledInterruptStatus : Exit(status, "unhandled_interrupt")
    /\ UNCHANGED <<config_vars, fs_vars, lib_vars, export_vars>>

(***************************************************************************)
(* process_papers, lines 60-101                                            *)
(***************************************************************************)
\* Variant of process_papers_except that logs and returns.
process_papers_except_return(cause) == Exit(0, cause)

\* except Exception of lines 99-101: log, sys.exit(1)
process_papers_except(cause) == Exit(1, cause)

\* line 63
sync_zotero_collection ==
    /\ pc = "sync"
    /\ sync_calls' = sync_calls + 1
    /\ \/ Goto("get_library_df")
       \/ process_papers_except("sync_error")
    /\ UNCHANGED <<config_vars, fs_vars, clients_initialised, paper_library_df,
                   obsidian_dir, export_vars, interrupted_at>>

\* lines 66-71
get_library_df ==
    /\ pc = "get_library_df"
    /\ \/ \E df \in LibraryDfs :
             /\ paper_library_df' = df
             /\ IF df = <<>>
                THEN Exit(0, "no_papers")      \* warning, return
                ELSE Goto("export")
       \/ /\ process_papers_except("get_library_df_error")
          /\ UNCHANGED paper_library_df
    /\ UNCHANGED <<config_vars, fs_vars, clients_initialised, sync_calls,
                   obsidian_dir, export_vars, interrupted_at>>

\* What open(file_path, 'w') followed by f.write() can do when the
\* directory is of the given kind: succeed, raise OSError on opening, raise
\* OSError on writing (the file is already truncated), or raise an exception
\* that is not an OSError on writing (UnicodeEncodeError).
WriteResults(kind) ==
    IF kind = "dir"
    THEN {"written", "open_oserror", "write_oserror", "write_valueerror"}
    ELSE {"open_oserror"}

\* Variant of caught_as_oserror: the loop body has no handler.
caught_never(result) == FALSE

\* except OSError of line 89
caught_as_oserror(result) == result \in {"open_oserror", "write_oserror"}

\* Variant of write_file for mode 'a': the text is added to the file.
write_file_append(old, text) == IF old = NoFile THEN text ELSE old \o text

\* Mode 'w': the text replaces whatever the file held.
write_file(old, text) == text

\* One iteration of the loop of lines 74-95.
export_paper ==
    /\ pc = "export"
    /\ paper_index < Len(paper_library_df)
    /\ paper_index' = paper_index + 1
    /\ LET paper == paper_library_df[paper_index + 1]
           path == <<obsidian_dir, FileName(paper)>>
           write_op == [op |-> "write", dir |-> obsidian_dir, name |-> FileName(paper),
                        row |-> paper_index + 1]
           truncate_op == [op |-> "truncate", dir |-> obsidian_dir, name |-> FileName(paper),
                           row |-> paper_index + 1]
       IN IF ~HasFulltext(paper)
          THEN /\ outcome' = Append(outcome, "skipped")
               /\ Goto("export")
               /\ UNCHANGED <<fs_vars, processed_count>>
          ELSE IF ~Truthy(obsidian_dir)
          THEN /\ outcome' = Append(outcome, "simulated")
               /\ processed_count' = processed_count + 1
               /\ Goto("export")
               /\ UNCHANGED fs_vars
          ELSE \E result \in WriteResults(dirs[obsidian_dir]) :
                  /\ IF result = "written"
                     THEN /\ files' = [files EXCEPT
                                          ![path] = write_file(@, markdown_text(paper))]
                          /\ fs_ops' = Append(fs_ops, write_op)
                          /\ processed_count' = processed_count + 1
                     ELSE IF result = "open_oserror"
                     THEN UNCHANGED <<files, fs_ops, processed_count>>
                     ELSE /\ files' = [files EXCEPT ![path] = <<>>]
                          /\ fs_ops' = Append(fs_ops, truncate_op)
                          /\ UNCHANGED processed_count
                  /\ UNCHANGED dirs
                  /\ outcome' = Append(outcome, result)
                  /\ IF result = "written" \/ caught_as_oserror(result)
                     THEN Goto("export")
                     ELSE process_papers_except("export_error")
    /\ UNCHANGED <<config_vars, lib_vars, logged_total, interrupted_at>>

\* line 97, then process_papers and main return
log_total ==
    /\ pc = "export"
    /\ paper_index = Len(paper_library_df)
    /\ logged_total' = processed_count
    /\ Exit(0, "completed")
    /\ UNCHANGED <<config_vars, fs_vars, lib_vars, paper_index, outcome,
                   processed_count, interrupted_at>>

Next ==
    \/ parse_args
    \/ validate_args
    \/ ask_api_key
    \/ ask_library_id
    \/ ask_collection_key
    \/ ask_obsidian_directory
    \/ init_clients
    \/ sync_zotero_collection
    \/ get_library_df
    \/ export_paper
    \/ log_total
    \/ interrupt

Spec == Init /\ [][Next]_vars

TypeOK ==
    /\ pc \in {"parse_args", "validate_args", "ask_api_key", "ask_library_id",
               "ask_collection_key", "ask_obsidian_directory", "exited"} \cup TryBlock
    /\ paper_index = Len(outcome)
    /\ paper_index <= Len(paper_library_df)
    /\ processed_count <= paper_index
    /\ sync_calls \in 0..1
    /\ exit_status \in {-1, 0, 1, 2, 130}
    /\ (pc = "exited") = (exit_status # -1)

(***************************************************************************)
(* Properties                                                              *)
(***************************************************************************)
\* Stated apart from HasFulltext: the value is there, is text, and has a
\* character that is not a blank.
NonBlankText(v) ==
    /\ v \notin {Missing, NaN, None}
    /\ \E i \in 1..Len(v) : v[i] # " "

Rows == 1..Len(outcome)
CountedRows == {i \in Rows : outcome[i] \in {"written", "simulated"}}
OSErrorRows == {i \in Rows : outcome[i] \in {"open_oserror", "write_oserror"}}
FileOps == {i \in 1..Len(fs_ops) : fs_ops[i].op \in {"write", "truncate"}}
WriteOps == {i \in 1..Len(fs_ops) : fs_ops[i].op = "write"}
PathOf(paper) == <<obsidian_dir, FileName(paper)>>

\* C1: a row whose full text is absent, not a string or blank is skipped: no
\* file operation is made for it and it is not counted; every file operation
\* and every counted row belongs to a row with non-blank textual full text.
C1_OnlyRowsWithFulltextAreExported ==
    /\ \A i \in Rows :
          ~NonBlankText(paper_library_df[i].fulltext) =>
             /\ outcome[i] = "skipped"
             /\ \A k \in FileOps : fs_ops[k].row # i
    /\ \A k \in FileOps : NonBlankText(paper_library_df[fs_ops[k].row].fulltext)
    /\ processed_count = Cardinality(CountedRows)
    /\ \A i \in CountedRows : NonBlankText(paper_library_df[i].fulltext)

\* A finished export that skipped a blank row and wrote another row.
C1_Witness ==
    /\ exit_cause = "completed"
    /\ \E i, j \in Rows :
          /\ paper_library_df[i].fulltext = <<" ">>
          /\ outcome[i] = "skipped"
          /\ outcome[j] = "written"

\* C2: when the write of a row has succeeded, the file at
\* <output directory>/<sanitized title>.md holds "# " + title + "\n\n" +
\* fulltext, the full text character for character.
C2_WrittenFileIsHeaderAndVerbatimText ==
    (paper_index >= 1 /\ outcome[paper_index] = "written") =>
        LET paper == paper_library_df[paper_index]
        IN files[<<obsidian_dir, sanitize_filename(paper.title) \o <<".", "m", "d">> >>]
              = <<"#", " ">> \o paper.title \o <<"\n", "\n">> \o paper.fulltext

\* A row whose title needs sanitizing and whose text starts with a blank has
\* just been written.
C2_Witness ==
    /\ paper_index >= 1
    /\ outcome[paper_index] = "written"
    /\ paper_library_df[paper_index] = [title |-> <<"a", "/">>, fulltext |-> <<" ", "t">>]
    /\ pc = "export"

C8_SyncFailureIsFatal ==
    exit_cause \in {"sync_error", "get_library_df_error"} =>
        /\ pc = "exited"
        /\ exit_status = 1
        /\ outcome = <<>>
        /\ FileOps = {}
        /\ processed_count = 0
        /\ logged_total = -1
        /\ sync_calls = 1

\* get_library_df raised after a successful synchronisation.
C8_Witness ==
    /\ exit_cause = "get_library_df_error"
    /\ sync_calls = 1
    /\ pc = "exited"

Credentials == {"zotero_api_key", "zotero_library_id", "zotero_collection_key"}
AskLabel(c) == IF c = "zotero_api_key" THEN "ask_api_key"
               ELSE IF c = "zotero_library_id" THEN "ask_library_id"
               ELSE "ask_collection_key"
NonEmpty(v) == v # None /\ v # <<>>
OnlyBlanks(v) == \A i \in 1..Len(v) : v[i] = " "

\* C9, the states: clients are initialised and the synchronisation is
\* attempted only when the three credentials are non-empty; a prompted
\* credential left empty has ended the process with status 1 before any
\* client was initialised.
C9_State ==
    /\ (clients_initialised \/ sync_calls > 0) =>
          \A c \in Credentials : NonEmpty(args[c])
    /\ \A c \in Credentials :
          (c \in prompted /\ OnlyBlanks(args[c])) =>
             /\ pc = "exited"
             /\ exit_status = 1
             /\ ~clients_initialised
             /\ sync_calls = 0

\* C9, the steps: a credential that is absent when its turn comes is read
\* from the console (unless an interrupt ends the process there), and an
\* empty response ends the process with status 1.
C9_Step ==
    \A c \in Credentials :
       (pc = AskLabel(c) /\ args[c] \in {None, <<>>} /\ interrupted_at' = "") =>
          /\ c \in prompted'
          /\ args'[c] # None
          /\ OnlyBlanks(args'[c]) => (pc' = "exited" /\ exit_status' = 1)

\* C9: each absent credential is prompted for, an empty response is fatal,
\* and synchronisation needs three non-empty credentials.
C9_MissingCredentialIsFatal == []C9_State /\ [][C9_Step]_vars

\* The collection key was prompted for, and the response was empty.
C9_Witness ==
    /\ "zotero_collection_key" \in prompted
    /\ args.zotero_collection_key = <<>>
    /\ exit_cause = "missing_credential"

\* A library type other than 'user' and 'group' was supplied: the flag value
\* was refused by the parser, or the namespace holds the value.
InvalidTypeSupplied ==
    \/ exit_cause = "argparse_invalid_choice"
    \/ pc # "parse_args" /\ args.zotero_library_type # None
          /\ args.zotero_library_type \notin {<<"user">>, <<"group">>}

\* C6 as stated: an invalid library type, however supplied, ends the process
\* with status 1, and neither a client is initialised nor a synchronisation
\* attempted.  (Runs ended by an interrupt are set aside.)
C6_InvalidLibraryTypeExitsOne ==
    (InvalidTypeSupplied /\ interrupted_at = "") =>
        /\ pc = "exited" => exit_status = 1
        /\ pc \in {"validate_args", "exited"}
        /\ ~clients_initialised
        /\ sync_calls = 0

\* C6 amended: an invalid library type ends the process with status 2 when
\* it was given by flag (the parser refuses it) and with status 1 when it
\* came from the environment variable (validate_args refuses it); in both
\* cases no client is initialised and no synchronisation is attempted.
C6_InvalidLibraryTypeIsFatal ==
    (InvalidTypeSupplied /\ interrupted_at = "") =>
        /\ pc \in {"validate_args", "exited"}
        /\ pc = "exited" =>
              exit_status = IF exit_cause = "argparse_invalid_choice" THEN 2 ELSE 1
        /\ exit_cause \in {"running", "argparse_invalid_choice", "invalid_library_type"}
        /\ ~clients_initialised
        /\ sync_calls = 0

\* validate_args has refused a library type that came from the environment.
C6_Witness ==
    /\ args.zotero_library_type = <<"admin">>
    /\ exit_cause = "invalid_library_type"
    /\ exit_status = 1

\* An export into a directory that ended at line 97 without a failed write.
CleanExport ==
    /\ exit_cause = "completed"
    /\ Truthy(obsidian_dir)
    /\ \A i \in Rows : outcome[i] \in {"written", "skipped"}

WrittenRows == {i \in Rows : outcome[i] = "written"}
WrittenPaths == {<<fs_ops[k].dir, fs_ops[k].name>> : k \in WriteOps}
Document(paper) == <<"#", " ">> \o paper.title \o <<"\n", "\n">> \o paper.fulltext

\* Every written row's path holds the document of the last written row
\* with that path: overwritten, not kept, not appended to.
Overwritten ==
    \A i \in WrittenRows :
       LET last == CHOOSE j \in WrittenRows :
                      /\ PathOf(paper_library_df[j]) = PathOf(paper_library_df[i])
                      /\ \A m \in WrittenRows :
                            PathOf(paper_library_df[m]) = PathOf(paper_library_df[i]) => m <= j
       IN files[PathOf(paper_library_df[i])] = Document(paper_library_df[last])

\* C10 as stated: after an export into a directory without a write failure
\* the number of files the run wrote equals the logged count, one file per
\* row with full text, each file overwritten with its row's document.
C10_OneFilePerQualifyingRow ==
    CleanExport =>
        /\ Cardinality(WrittenPaths) = logged_total
        /\ Overwritten

\* C10 amended: after such an export there is one file per distinct
\* sanitized title among the rows with full text; the number of files
\* written is at most the logged count and equals it when those file names
\* are pairwise distinct; the number of writes equals the logged count; an
\* existing file is overwritten with the document of the last row written
\* to its path.
C10_OneFilePerSanitizedTitle ==
    CleanExport =>
        /\ WrittenPaths = {PathOf(paper_library_df[i]) : i \in
                              {r \in Rows : NonBlankText(paper_library_df[r].fulltext)}}
        /\ Cardinality(WriteOps) = logged_total
        /\ Cardinality(WrittenPaths) <= logged_total
        /\ (\A i, j \in WrittenRows :
               i # j => FileName(paper_library_df[i]) # FileName(paper_library_df[j]))
              => Cardinality(WrittenPaths) = logged_total
        /\ Overwritten

\* Two different rows with the same sanitized title were written, one over
\* the other.
C10_Witness ==
    /\ CleanExport
    /\ outcome = <<"written", "written">>
    /\ FileName(paper_library_df[1]) = FileName(paper_library_df[2])
    /\ paper_library_df[1] # paper_library_df[2]
    /\ fs_ops[1].name = <<"a", ".", "m", "d">>

\* C3 as stated: in dry-run mode, or once no output directory is
\* configured, the process has made no modification of the file system.
C3_DryRunNeverTouchesFilesystem ==
    (args.dry_run \/ (clients_initialised /\ args.obsidian_directory = None))
        => fs_ops = <<>>

\* The process is blocked on a console read at the place the interrupt hit.
BlockedOnRead ==
    \/ \E c \in Credentials : interrupted_at = AskLabel(c) /\ ~Truthy(args[c])
    \/ interrupted_at = "ask_obsidian_directory" /\ ~Truthy(args.obsidian_directory)

\* C5 as stated: an interrupt that arrives during a console read, during
\* client initialisation, synchronisation or export ends the process with
\* status 0.
C5_InterruptExitsZero ==
    (interrupted_at \in TryBlock \/ BlockedOnRead) =>
        /\ pc = "exited"
        /\ exit_status = 0

\* C7 as stated: when the output directory the run uses is a regular file,
\* the process ends with status 1 and the synchroniser is never called.
\* (Runs ended by an interrupt are set aside.)
C7_RegularFileIsFatalBeforeSync ==
    (Truthy(obsidian_dir) /\ dirs[obsidian_dir] = "file" /\ interrupted_at = "") =>
        /\ sync_calls = 0
        /\ pc = "exited" => exit_status = 1

====
